---------------------------- MODULE Spec2Model ----------------------------
(***************************************************************************)
(* State-machine model of the NCT610XD Super-I/O GPIO driver               *)
(* (gpio-nct610xd.c).                                                      *)
(*                                                                         *)
(* The model has three layers:                                             *)
(*   - the hardware: one Super-I/O configuration window per candidate      *)
(*     address (index port = base, data port = base + 1) and the kernel's  *)
(*     I/O-region table entry that guards it;                              *)
(*   - the Super-I/O helper functions superio_* of the driver, as steps    *)
(*     that issue their port operations in source order;                   *)
(*   - the five gpio_chip callbacks, nct610xd_find and nct610xd_gpio_init, *)
(*     each given as the sequence of helper calls its body makes.          *)
(*                                                                         *)
(* A thread executes one helper call per step, so the interleavings of     *)
(* concurrent callers are those the kernel can produce between two helper  *)
(* calls.                                                                  *)
(***************************************************************************)
EXTENDS Integers, Sequences, FiniteSets, TLC

(***************************************************************************)
(* Program constants.                                                      *)
(***************************************************************************)
SIO_LDSEL == 7
SIO_CHIPID == 32
SIO_GPIO_ENABLE == 48
SIO_LD_GPIO == 7
SIO_UNLOCK_KEY == 135
SIO_LOCK_KEY == 170
SIO_NCT610XD_ID == 53890
GPIO4_ENABLE == 16
ADDR_FIRST == 46
ADDR_SECOND == 78
BANK_BASE == 40
BANK_NGPIO == 8
BANK_REGBASE == 240
EBUSY == 16
ENODEV == 19
EPERM == 1
ENOMEM == 12

gpio_dir(base) == base + 0
gpio_data(base) == base + 1

(***************************************************************************)
(* Bounds of the model.                                                    *)
(***************************************************************************)
\* GPIO calls issued in one behaviour that starts with a registered chip.
MaxCalls == 2
\* GPIO calls issued in one behaviour that starts at module load.
BootCalls == 1

Callers == {1, 2}
\* The logical pin number of offset o of the bank.
Pin(o) == BANK_BASE + o
InitThread == 0
Threads == {InitThread} \cup Callers
Addrs == {ADDR_FIRST, ADDR_SECOND}

\* Chip-id words a candidate address may answer with: the supported id, the
\* same two bytes swapped, and the all-ones word of an empty bus.
IdWords == {SIO_NCT610XD_ID, 33490, 65535}
\* Initial contents <<direction register, data register>>: 0xA5/0xCC and the
\* complement 0x5A/0x33, so that the eight pins between them start with every
\* combination of direction bit and data bit.
InitRegs == { <<165, 204>>, <<90, 51>> }
\* Initial contents of the GPIO-enable register.
InitEnable == {0, 16}

VARIABLES
    region,     \* region[a]: holder of the I/O region {a, a+1}
    chip,       \* chip[a]: the Super-I/O chip behind the window at a
    pc,         \* pc[t]: 0 not in a call, else index of the next helper call
    waiting,    \* waiting[t]: asleep inside request_muxed_region
    fn,         \* fn[t]: the function thread t executes
    offset,     \* offset[t]: the callback's offset argument
    value,      \* value[t]: the callback's value argument
    addr,       \* addr[t]: the base address the call works on
    dir,        \* dir[t]: local u8 dir
    data_out,   \* data_out[t]: local u8 data_out (data in nct610xd_gpio_get)
    gpio_cfg,   \* local u8 gpio_cfg of nct610xd_find
    devid,      \* local u16 devid of nct610xd_find
    err,        \* err[t]: local int err
    ret,        \* ret[t]: value returned by the last finished call
    sio,        \* struct nct610xd_sio sio of nct610xd_gpio_init
    ipc,        \* position of nct610xd_gpio_init
    driver,     \* nct610xd_gpio_driver is registered
    pdev,       \* nct610xd_gpio_pdev is added to the platform bus
    gpiochip,   \* the bank's gpio_chip is registered: its callbacks can be called
    initret,    \* return value of nct610xd_gpio_init
    probed,     \* candidate addresses nct610xd_find was called with, in order
    finds,      \* the calls of nct610xd_find that returned: address, devid, result
    left,       \* GPIO calls still allowed in this behaviour
    sess,       \* sess[t]: SioSession state of the thread's session
    ptrace,     \* ptrace[t]: port operations of the current call, in order
    rlog,       \* rlog[t]: register transactions of the current call, in order
    serial,     \* direction/data registers of the serial reference execution
    sret,       \* sret[t]: return value of the call in the reference execution
    lastOp      \* the last finished session that wrote a GPIO register

vars == <<region, chip, pc, waiting, fn, offset, value, addr, dir, data_out,
          gpio_cfg, devid, err, ret, sio, ipc, driver, pdev, gpiochip,
          initret, probed, finds, left, sess, ptrace, rlog, serial, sret,
          lastOp>>

(***************************************************************************)
(* Bit arithmetic on C integers.                                           *)
(***************************************************************************)
Pow2(n) == 2 ^ n
Bit(x, n) == (x \div Pow2(n)) % 2
\* (u8)(x | (1 << n))
OrBit(x, n) == IF n < 8 /\ Bit(x, n) = 0 THEN x + Pow2(n) ELSE x
\* (u8)(x & ~(1 << n))
ClearBit(x, n) == IF n < 8 /\ Bit(x, n) = 1 THEN x - Pow2(n) ELSE x
\* x & (1 << n)
AndBit(x, n) == Bit(x, n) * Pow2(n)

(***************************************************************************)
(* The hardware: port writes and reads on one chip.                        *)
(* port 0 is the index port (base), port 1 the data port (base + 1).       *)
(* The configuration window opens after two writes of the unlock key to    *)
(* the index port and closes on the lock key.  Registers 0x07 (logical     *)
(* device select) and 0x20/0x21 (chip id) are global; 0x30, 0xF0 and 0xF1  *)
(* belong to the selected logical device and are modelled for the GPIO     *)
(* device only.  A chip whose enable bit does not stick keeps bit 0x10 of  *)
(* register 0x30 at its old value.                                         *)
(***************************************************************************)
IndexWrite(ch, v) ==
    CASE ch.mode = "locked" ->
           [ch EXCEPT !.mode = IF v = SIO_UNLOCK_KEY THEN "armed" ELSE "locked"]
      [] ch.mode = "armed" ->
           [ch EXCEPT !.mode = IF v = SIO_UNLOCK_KEY THEN "open" ELSE "locked"]
      [] OTHER ->
           IF v = SIO_LOCK_KEY THEN [ch EXCEPT !.mode = "locked"]
                               ELSE [ch EXCEPT !.idx = v]

EnableWrite(ch, v) ==
    IF ch.sticks THEN v
    ELSE ClearBit(v, 4) + AndBit(ch.en, 4)

DataWrite(ch, v) ==
    IF ch.mode # "open" THEN ch
    ELSE CASE ch.idx = SIO_LDSEL -> [ch EXCEPT !.ld = v]
           [] ch.idx = SIO_GPIO_ENABLE /\ ch.ld = SIO_LD_GPIO ->
                [ch EXCEPT !.en = EnableWrite(ch, v)]
           [] ch.idx = gpio_dir(BANK_REGBASE) /\ ch.ld = SIO_LD_GPIO ->
                [ch EXCEPT !.dir = v]
           [] ch.idx = gpio_data(BANK_REGBASE) /\ ch.ld = SIO_LD_GPIO ->
                [ch EXCEPT !.data = v]
           [] OTHER -> ch

outb(ch, v, port) == IF port = 0 THEN IndexWrite(ch, v) ELSE DataWrite(ch, v)

inb(ch, port) ==
    IF port = 0 \/ ch.mode # "open" THEN 255
    ELSE CASE ch.idx = SIO_LDSEL -> ch.ld
           [] ch.idx = SIO_CHIPID -> ch.id \div 256
           [] ch.idx = SIO_CHIPID + 1 -> ch.id % 256
           [] ch.idx = SIO_GPIO_ENABLE /\ ch.ld = SIO_LD_GPIO -> ch.en
           [] ch.idx = gpio_dir(BANK_REGBASE) /\ ch.ld = SIO_LD_GPIO -> ch.dir
           [] ch.idx = gpio_data(BANK_REGBASE) /\ ch.ld = SIO_LD_GPIO -> ch.data
           [] OTHER -> 255


(***************************************************************************)
(* The kernel's I/O-region table entry for {base, base + 1}.               *)
(* request_muxed_region claims the region with IORESOURCE_MUXED: it        *)
(* succeeds when the region is free, sleeps until the region is released   *)
(* when the current holder is itself a muxed holder (every thread of this  *)
(* driver, or another Super-I/O driver), and returns NULL when the holder  *)
(* claimed the region without IORESOURCE_MUXED.                            *)
(***************************************************************************)
Free == [kind |-> "free", by |-> 0]
HeldBy(t) == [kind |-> "driver", by |-> t]
Foreign(k) == [kind |-> k, by |-> 0]
ForeignKinds == {"muxed", "busy"}

\* A claim that never looks at the region table.
request_unchecked(r) == "acquired"

\* A claim that passes over muxed holders instead of sleeping on them.
request_over_muxed(r) == IF r.kind = "busy" THEN "null" ELSE "acquired"

\* request_region: test-and-fail on any holder.
request_no_sleep(r) == IF r.kind = "free" THEN "acquired" ELSE "null"

request_muxed_region(r) ==
    CASE r.kind = "free" -> "acquired"
      [] r.kind \in {"driver", "muxed"} -> "sleep"
      [] OTHER -> "null"

\* An exit that leaves the region table entry as it is.
release_region_kept(r) == r

release_region(r) == Free

(***************************************************************************)
(* The bodies of the callbacks, as the helper calls they make in order.    *)
(* An inb names the local it assigns; an outb names the local it writes    *)
(* and the update the code applies to that local just before the call:     *)
(*   "set"   local |= (1 << offset)                                        *)
(*   "clear" local &= ~(1 << offset)                                       *)
(*   "value" if (value) local |= (1 << offset) else local &= ~(1 << offset)*)
(*   "gpio4" local |= 0x10                                                 *)
(***************************************************************************)
Enter == [k |-> "enter"]
Select(ld) == [k |-> "select", ld |-> ld]
Inb(reg, var) == [k |-> "inb", reg |-> reg, var |-> var]
Outb(reg, var, upd) == [k |-> "outb", reg |-> reg, var |-> var, upd |-> upd]
Inw(reg, use) == [k |-> "inw", reg |-> reg, use |-> use]
Verify(reg, var) == [k |-> "verify", reg |-> reg, var |-> var]
Exit == [k |-> "exit"]

\* The callback without its superio_select.
get_direction_no_select ==
    << Enter,
       Inb(gpio_dir(BANK_REGBASE), "dir"),
       Exit >>

nct610xd_gpio_get_direction ==
    << Enter, Select(SIO_LD_GPIO),
       Inb(gpio_dir(BANK_REGBASE), "dir"),
       Exit >>

\* The callback clearing the bit where the code sets it.
direction_in_clears ==
    << Enter, Select(SIO_LD_GPIO),
       Inb(gpio_dir(BANK_REGBASE), "dir"),
       Outb(gpio_dir(BANK_REGBASE), "dir", "clear"),
       Exit >>

nct610xd_gpio_direction_in ==
    << Enter, Select(SIO_LD_GPIO),
       Inb(gpio_dir(BANK_REGBASE), "dir"),
       Outb(gpio_dir(BANK_REGBASE), "dir", "set"),
       Exit >>

\* The callback reading the direction register for the level.
get_reads_direction ==
    << Enter, Select(SIO_LD_GPIO),
       Inb(gpio_dir(BANK_REGBASE), "data_out"),
       Exit >>

nct610xd_gpio_get ==
    << Enter, Select(SIO_LD_GPIO),
       Inb(gpio_data(BANK_REGBASE), "data_out"),
       Exit >>

\* The callback switching the pin to output before it commits the level.
direction_out_dir_first ==
    << Enter, Select(SIO_LD_GPIO),
       Inb(gpio_dir(BANK_REGBASE), "dir"),
       Outb(gpio_dir(BANK_REGBASE), "dir", "clear"),
       Inb(gpio_data(BANK_REGBASE), "data_out"),
       Outb(gpio_data(BANK_REGBASE), "data_out", "value"),
       Exit >>

nct610xd_gpio_direction_out ==
    << Enter, Select(SIO_LD_GPIO),
       Inb(gpio_data(BANK_REGBASE), "data_out"),
       Outb(gpio_data(BANK_REGBASE), "data_out", "value"),
       Inb(gpio_dir(BANK_REGBASE), "dir"),
       Outb(gpio_dir(BANK_REGBASE), "dir", "clear"),
       Exit >>

\* The callback working on gpio_dir where the code has gpio_data.
set_on_direction ==
    << Enter, Select(SIO_LD_GPIO),
       Inb(gpio_dir(BANK_REGBASE), "data_out"),
       Outb(gpio_dir(BANK_REGBASE), "data_out", "value"),
       Exit >>

nct610xd_gpio_set ==
    << Enter, Select(SIO_LD_GPIO),
       Inb(gpio_data(BANK_REGBASE), "data_out"),
       Outb(gpio_data(BANK_REGBASE), "data_out", "value"),
       Exit >>

\* nct610xd_find: the first inw feeds the switch on devid (a mismatch jumps
\* to the err label), the second is the argument of pr_info; the verify step
\* is the read-back of the enable register and the test of bit 0x10.
nct610xd_find ==
    << Enter,
       Inw(SIO_CHIPID, "switch"),
       Inw(SIO_CHIPID, "log"),
       Select(SIO_LD_GPIO),
       Inb(SIO_GPIO_ENABLE, "gpio_cfg"),
       Outb(SIO_GPIO_ENABLE, "gpio_cfg", "gpio4"),
       Verify(SIO_GPIO_ENABLE, "gpio_cfg"),
       Exit >>

GpioOps == {"get_direction", "direction_in", "get", "direction_out", "set"}
\* The callbacks that take a value argument.
ValueOps == {"direction_out", "set"}

Body(f) ==
    CASE f = "get_direction" -> nct610xd_gpio_get_direction
      [] f = "direction_in" -> nct610xd_gpio_direction_in
      [] f = "get" -> nct610xd_gpio_get
      [] f = "direction_out" -> nct610xd_gpio_direction_out
      [] f = "set" -> nct610xd_gpio_set
      [] OTHER -> nct610xd_find

InCall(t) == pc[t] > 0 /\ pc[t] <= Len(Body(fn[t]))
Returned(t) == pc[t] > Len(Body(fn[t]))
Instr(t) == Body(fn[t])[pc[t]]
At(t, k) == InCall(t) /\ Instr(t).k = k
\* "return err" where the code has "goto err": the call ends without exit.
ExitPc_return(f) == Len(Body(f)) + 1

\* The index of the exit call (the err label of nct610xd_find).
ExitPc(f) == CHOOSE i \in 1..Len(Body(f)) : Body(f)[i].k = "exit"
\* Between a successful superio_enter and the end of superio_exit.
InSession(t) == InCall(t) /\ pc[t] > 1

(***************************************************************************)
(* Locals of the running call.                                             *)
(***************************************************************************)
Local(t, var) ==
    CASE var = "dir" -> dir[t]
      [] var = "data_out" -> data_out[t]
      [] OTHER -> gpio_cfg

\* The updates with "=" where the code has "|=" and "&=".
Update_assign(upd, x, t) ==
    CASE upd = "set" -> Pow2(offset[t])
      [] upd = "clear" -> 255 - Pow2(offset[t])
      [] upd = "value" -> IF value[t] # 0 THEN Pow2(offset[t])
                                          ELSE 255 - Pow2(offset[t])
      [] OTHER -> GPIO4_ENABLE

\* The update the code applies to local x before it writes it back.
Update(upd, x, t) ==
    CASE upd = "set" -> OrBit(x, offset[t])
      [] upd = "clear" -> ClearBit(x, offset[t])
      [] upd = "value" -> IF value[t] # 0 THEN OrBit(x, offset[t])
                                          ELSE ClearBit(x, offset[t])
      [] OTHER -> IF (x \div GPIO4_ENABLE) % 2 = 1 THEN x ELSE x + GPIO4_ENABLE

Assign(t, var, v) ==
    /\ dir' = IF var = "dir" THEN [dir EXCEPT ![t] = v] ELSE dir
    /\ data_out' = IF var = "data_out" THEN [data_out EXCEPT ![t] = v]
                                       ELSE data_out
    /\ gpio_cfg' = IF var = "gpio_cfg" THEN v ELSE gpio_cfg

\* nct610xd_gpio_get without the "!!": the masked byte instead of 0 or 1.
ReturnValue_mask(t) ==
    CASE fn[t] \in {"get_direction", "get"} ->
           AndBit(IF fn[t] = "get" THEN data_out[t] ELSE dir[t], offset[t])
      [] fn[t] \in {"direction_in", "direction_out", "set"} -> 0
      [] OTHER -> err[t]

\* The value the function returns after superio_exit.  nct610xd_gpio_set
\* returns void, modelled as 0.
ReturnValue(t) ==
    CASE fn[t] = "get_direction" -> AndBit(dir[t], offset[t])
      [] fn[t] = "get" -> Bit(data_out[t], offset[t])
      [] fn[t] \in {"direction_in", "direction_out", "set"} -> 0
      [] OTHER -> err[t]

\* The value the function returns when superio_enter fails with e.
EnterFailure(f, e) == IF f = "set" THEN 0 ELSE e

(***************************************************************************)
(* Records of what a call did on the bus.                                  *)
(***************************************************************************)
PortOut(v, port) == [op |-> "outb", val |-> v, port |-> port]
PortIn(v, port) == [op |-> "inb", val |-> v, port |-> port]
\* One register transaction: the session state of the issuing thread, and
\* the chip's window state and selected logical device when the data port
\* was accessed.
RegAccess(t, k, reg, v, ch) ==
    [k |-> k, reg |-> reg, val |-> v, sess |-> sess[t],
     own |-> (region[addr[t]] = HeldBy(t)), mode |-> ch.mode, ld |-> ch.ld]

(***************************************************************************)
(* The serial reference execution: each GPIO operation applied as one      *)
(* indivisible transformation of the direction and data registers.         *)
(***************************************************************************)
SerialApply(f, off, val, s) ==
    CASE f = "get_direction" -> [s EXCEPT !.ret = AndBit(s.dir, off)]
      [] f = "direction_in" -> [s EXCEPT !.dir = OrBit(s.dir, off), !.ret = 0]
      [] f = "get" -> [s EXCEPT !.ret = Bit(s.data, off)]
      [] f = "direction_out" ->
           [dir |-> ClearBit(s.dir, off),
            data |-> IF val # 0 THEN OrBit(s.data, off) ELSE ClearBit(s.data, off),
            ret |-> 0]
      [] f = "set" ->
           [s EXCEPT !.data = IF val # 0 THEN OrBit(s.data, off)
                                         ELSE ClearBit(s.data, off),
                     !.ret = 0]
      [] OTHER -> s

NoOp == [f |-> "none", off |-> 0, val |-> 0]
Writers == {"direction_in", "direction_out", "set"}

(***************************************************************************)
(* superio_enter.                                                          *)
(***************************************************************************)
\* superio_enter sending the unlock key once.
superio_enter_once(t) ==
    LET a == addr[t]
        s == SerialApply(fn[t], offset[t], value[t], serial)
    IN  /\ At(t, "enter")
        /\ request_muxed_region(region[a]) = "acquired"
        /\ region' = [region EXCEPT ![a] = HeldBy(t)]
        /\ chip' = [chip EXCEPT ![a] = outb(@, SIO_UNLOCK_KEY, 0)]
        /\ ptrace' = [ptrace EXCEPT ![t] = @ \o << PortOut(SIO_UNLOCK_KEY, a) >>]
        /\ sess' = [sess EXCEPT ![t] = "Unlocked"]
        /\ waiting' = [waiting EXCEPT ![t] = FALSE]
        /\ err' = [err EXCEPT ![t] = IF fn[t] = "find" THEN 0 - ENODEV ELSE 0]
        /\ pc' = [pc EXCEPT ![t] = @ + 1]
        /\ serial' = [s EXCEPT !.ret = 0]
        /\ sret' = [sret EXCEPT ![t] = s.ret]
        /\ UNCHANGED <<fn, offset, value, addr, dir, data_out, gpio_cfg, devid,
                       ret, sio, ipc, driver, pdev,
                       gpiochip, initret, probed, finds, left, rlog, lastOp>>

\* The region is free: claim it and send the unlock key twice.
superio_enter(t) ==
    LET a == addr[t]
        s == SerialApply(fn[t], offset[t], value[t], serial)
    IN  /\ At(t, "enter")
        /\ request_muxed_region(region[a]) = "acquired"
        /\ region' = [region EXCEPT ![a] = HeldBy(t)]
        /\ chip' = [chip EXCEPT ![a] =
                      outb(outb(@, SIO_UNLOCK_KEY, 0), SIO_UNLOCK_KEY, 0)]
        /\ ptrace' = [ptrace EXCEPT ![t] =
                      @ \o << PortOut(SIO_UNLOCK_KEY, a), PortOut(SIO_UNLOCK_KEY, a) >>]
        /\ sess' = [sess EXCEPT ![t] = "Unlocked"]
        /\ waiting' = [waiting EXCEPT ![t] = FALSE]
        /\ err' = [err EXCEPT ![t] = IF fn[t] = "find" THEN 0 - ENODEV ELSE 0]
        /\ pc' = [pc EXCEPT ![t] = @ + 1]
        /\ serial' = [s EXCEPT !.ret = 0]
        /\ sret' = [sret EXCEPT ![t] = s.ret]
        /\ UNCHANGED <<fn, offset, value, addr, dir, data_out, gpio_cfg, devid,
                       ret, sio, ipc, driver, pdev,
                       gpiochip, initret, probed, finds, left, rlog, lastOp>>

\* The region is held by a muxed holder: sleep until it is released.
superio_enter_sleep(t) ==
    /\ At(t, "enter")
    /\ ~waiting[t]
    /\ request_muxed_region(region[addr[t]]) = "sleep"
    /\ waiting' = [waiting EXCEPT ![t] = TRUE]
    /\ UNCHANGED <<region, chip, pc, fn, offset, value, addr, dir, data_out,
                   gpio_cfg, devid, err, ret, sio, ipc, driver, pdev,
                   gpiochip, initret, probed, finds, left,
                   sess, ptrace, rlog, serial, sret, lastOp>>

\* A failure path that runs superio_exit: the lock key is written and the
\* region of the other holder released.
superio_enter_busy_exit(t) ==
    LET a == addr[t]
    IN  /\ At(t, "enter")
        /\ request_muxed_region(region[a]) = "null"
        /\ waiting' = [waiting EXCEPT ![t] = FALSE]
        /\ err' = [err EXCEPT ![t] = 0 - EBUSY]
        /\ ret' = [ret EXCEPT ![t] = EnterFailure(fn[t], 0 - EBUSY)]
        /\ sret' = [sret EXCEPT ![t] = EnterFailure(fn[t], 0 - EBUSY)]
        /\ pc' = [pc EXCEPT ![t] = Len(Body(fn[t])) + 1]
        /\ chip' = [chip EXCEPT ![a] = outb(@, SIO_LOCK_KEY, 0)]
        /\ region' = [region EXCEPT ![a] = release_region(@)]
        /\ ptrace' = [ptrace EXCEPT ![t] = Append(@, PortOut(SIO_LOCK_KEY, a))]
        /\ UNCHANGED <<fn, offset, value, addr, dir, data_out, gpio_cfg, devid,
                       sio, ipc, driver, pdev,
                       gpiochip, initret, probed, finds, left, sess, rlog,
                       serial, lastOp>>

\* The region is held by a holder that is not muxed: return -EBUSY, and the
\* calling function returns (the error, or nothing from the void setter).
superio_enter_busy(t) ==
    /\ At(t, "enter")
    /\ request_muxed_region(region[addr[t]]) = "null"
    /\ waiting' = [waiting EXCEPT ![t] = FALSE]
    /\ err' = [err EXCEPT ![t] = 0 - EBUSY]
    /\ ret' = [ret EXCEPT ![t] = EnterFailure(fn[t], 0 - EBUSY)]
    /\ sret' = [sret EXCEPT ![t] = EnterFailure(fn[t], 0 - EBUSY)]
    /\ pc' = [pc EXCEPT ![t] = Len(Body(fn[t])) + 1]
    /\ UNCHANGED <<region, chip, fn, offset, value, addr, dir, data_out,
                   gpio_cfg, devid, sio, ipc, driver, pdev,
                   gpiochip, initret, probed, finds, left, sess,
                   ptrace, rlog, serial, lastOp>>

(***************************************************************************)
(* superio_select, superio_inb, superio_outb, superio_inw, superio_exit.   *)
(***************************************************************************)
superio_select(t) ==
    LET a == addr[t]
        ld == Instr(t).ld
    IN  /\ At(t, "select")
        /\ chip' = [chip EXCEPT ![a] = outb(outb(@, SIO_LDSEL, 0), ld, 1)]
        /\ ptrace' = [ptrace EXCEPT ![t] =
                      @ \o << PortOut(SIO_LDSEL, a), PortOut(ld, a + 1) >>]
        /\ sess' = [sess EXCEPT ![t] = "DeviceSelected"]
        /\ pc' = [pc EXCEPT ![t] = @ + 1]
        /\ UNCHANGED <<region, waiting, fn, offset, value, addr, dir, data_out,
                       gpio_cfg, devid, err, ret, sio, ipc, driver, pdev,
                       gpiochip, initret, probed, finds,
                       left, rlog, serial, sret, lastOp>>

superio_inb(t) ==
    LET a == addr[t]
        reg == Instr(t).reg
        c1 == outb(chip[a], reg, 0)
        v == inb(c1, 1)
    IN  /\ At(t, "inb")
        /\ chip' = [chip EXCEPT ![a] = c1]
        /\ Assign(t, Instr(t).var, v)
        /\ ptrace' = [ptrace EXCEPT ![t] =
                      @ \o << PortOut(reg, a), PortIn(v, a + 1) >>]
        /\ rlog' = [rlog EXCEPT ![t] = Append(@, RegAccess(t, "read", reg, v, c1))]
        /\ pc' = [pc EXCEPT ![t] = @ + 1]
        /\ UNCHANGED <<region, waiting, fn, offset, value, addr, devid, err,
                       ret, sio, ipc, driver, pdev,
                       gpiochip, initret, probed, finds, left, sess, serial,
                       sret, lastOp>>

superio_outb(t) ==
    LET a == addr[t]
        reg == Instr(t).reg
        v == Update(Instr(t).upd, Local(t, Instr(t).var), t)
        c1 == outb(chip[a], reg, 0)
    IN  /\ At(t, "outb")
        /\ chip' = [chip EXCEPT ![a] = outb(c1, v, 1)]
        /\ Assign(t, Instr(t).var, v)
        /\ ptrace' = [ptrace EXCEPT ![t] =
                      @ \o << PortOut(reg, a), PortOut(v, a + 1) >>]
        /\ rlog' = [rlog EXCEPT ![t] = Append(@, RegAccess(t, "write", reg, v, c1))]
        /\ pc' = [pc EXCEPT ![t] = @ + 1]
        /\ UNCHANGED <<region, waiting, fn, offset, value, addr, devid, err,
                       ret, sio, ipc, driver, pdev,
                       gpiochip, initret, probed, finds, left, sess, serial,
                       sret, lastOp>>

\* A switch without its default branch.
supported_any(id) == TRUE

\* switch (devid): case SIO_NCT610XD_ID is the one supported chip.
supported(id) == id = SIO_NCT610XD_ID

\* The two bytes assembled low byte first.
inw_value_le(hi, lo) == lo * 256 + hi

\* val = first byte << 8; val |= second byte
inw_value(hi, lo) == hi * 256 + lo

\* val = inb(base + 1) << 8 after selecting reg, val |= inb(base + 1) after
\* selecting reg + 1.
superio_inw(t) ==
    LET a == addr[t]
        reg == Instr(t).reg
        c1 == outb(chip[a], reg, 0)
        hi == inb(c1, 1)
        c2 == outb(c1, reg + 1, 0)
        lo == inb(c2, 1)
        val == inw_value(hi, lo)
        match == supported(val)
    IN  /\ At(t, "inw")
        /\ chip' = [chip EXCEPT ![a] = c2]
        /\ ptrace' = [ptrace EXCEPT ![t] =
                      @ \o << PortOut(reg, a), PortIn(hi, a + 1),
                              PortOut(reg + 1, a), PortIn(lo, a + 1) >>]
        /\ rlog' = [rlog EXCEPT ![t] =
                      @ \o << RegAccess(t, "read", reg, hi, c1),
                              RegAccess(t, "read", reg + 1, lo, c2) >>]
        /\ IF Instr(t).use = "switch"
              THEN /\ devid' = val
                   /\ sio' = IF match THEN [addr |-> a, type |-> "nct610xd"] ELSE sio
                   /\ pc' = [pc EXCEPT ![t] = IF match THEN @ + 1 ELSE ExitPc(fn[t])]
              ELSE /\ pc' = [pc EXCEPT ![t] = @ + 1]
                   /\ UNCHANGED <<devid, sio>>
        /\ UNCHANGED <<region, waiting, fn, offset, value, addr, dir, data_out,
                       gpio_cfg, err, ret, ipc, driver, pdev,
                       gpiochip, initret, probed, finds, left, sess,
                       serial, sret, lastOp>>

\* A verification that accepts whatever it reads back.
enable_failed_never(v) == FALSE

\* !(gpio_cfg & 0x10)
enable_failed(v) == (v \div GPIO4_ENABLE) % 2 = 0

\* gpio_cfg = superio_inb(addr, SIO_GPIO_ENABLE); if (!(gpio_cfg & 0x10))
\* { err = EPERM; goto err; }  ...  err = 0;
find_verify(t) ==
    LET a == addr[t]
        reg == Instr(t).reg
        c1 == outb(chip[a], reg, 0)
        v == inb(c1, 1)
        stuck == enable_failed(v)
    IN  /\ At(t, "verify")
        /\ chip' = [chip EXCEPT ![a] = c1]
        /\ Assign(t, Instr(t).var, v)
        /\ ptrace' = [ptrace EXCEPT ![t] =
                      @ \o << PortOut(reg, a), PortIn(v, a + 1) >>]
        /\ rlog' = [rlog EXCEPT ![t] = Append(@, RegAccess(t, "read", reg, v, c1))]
        /\ err' = [err EXCEPT ![t] = IF stuck THEN EPERM ELSE 0]
        /\ pc' = [pc EXCEPT ![t] = IF stuck THEN ExitPc(fn[t]) ELSE @ + 1]
        /\ UNCHANGED <<region, waiting, fn, offset, value, addr, devid, ret,
                       sio, ipc, driver, pdev,
                       gpiochip, initret, probed, finds, left, sess, serial, sret,
                       lastOp>>

\* Send the lock key, release the region; the function then returns.
superio_exit(t) ==
    LET a == addr[t]
    IN  /\ At(t, "exit")
        /\ chip' = [chip EXCEPT ![a] = outb(@, SIO_LOCK_KEY, 0)]
        /\ region' = [region EXCEPT ![a] = release_region(@)]
        /\ ptrace' = [ptrace EXCEPT ![t] = Append(@, PortOut(SIO_LOCK_KEY, a))]
        /\ sess' = [sess EXCEPT ![t] = "Closed"]
        /\ ret' = [ret EXCEPT ![t] = ReturnValue(t)]
        /\ pc' = [pc EXCEPT ![t] = Len(Body(fn[t])) + 1]
        /\ lastOp' = IF fn[t] \in Writers
                        THEN [f |-> fn[t], off |-> offset[t], val |-> value[t]]
                        ELSE lastOp
        /\ UNCHANGED <<waiting, fn, offset, value, addr, dir, data_out,
                       gpio_cfg, devid, err, sio, ipc, driver, pdev,
                       gpiochip, initret, probed, finds, left,
                       rlog, serial, sret>>

(***************************************************************************)
(* Callers of the gpio_chip callbacks.  The callbacks can be called from   *)
(* the moment nct610xd_gpio_probe has registered the gpio_chip until       *)
(* nct610xd_gpio_exit removes it.                                          *)
(***************************************************************************)
Registered == gpiochip

Call(c) ==
    /\ Registered
    /\ pc[c] = 0
    /\ left > 0
    /\ \E f \in GpioOps, v \in {0, 1} :
         /\ f \notin ValueOps => v = 0
         /\ fn' = [fn EXCEPT ![c] = f]
         /\ value' = [value EXCEPT ![c] = v]
    /\ addr' = [addr EXCEPT ![c] = sio.addr]
    /\ pc' = [pc EXCEPT ![c] = 1]
    /\ left' = left - 1
    /\ UNCHANGED <<region, chip, waiting, offset, dir, data_out, gpio_cfg,
                   devid, err, ret, sio, ipc, driver, pdev,
                   gpiochip, initret, probed, finds, sess, ptrace,
                   rlog, serial, sret, lastOp>>

\* The caller takes the returned value; the frame of the call is gone.
Return(c) ==
    /\ Returned(c)
    /\ pc' = [pc EXCEPT ![c] = 0]
    /\ dir' = [dir EXCEPT ![c] = 0]
    /\ data_out' = [data_out EXCEPT ![c] = 0]
    /\ err' = [err EXCEPT ![c] = 0]
    /\ ret' = [ret EXCEPT ![c] = 0]
    /\ sret' = [sret EXCEPT ![c] = 0]
    /\ ptrace' = [ptrace EXCEPT ![c] = << >>]
    /\ rlog' = [rlog EXCEPT ![c] = << >>]
    /\ UNCHANGED <<region, chip, waiting, fn, offset, value, addr, gpio_cfg,
                   devid, sio, ipc, driver, pdev,
                   gpiochip, initret, probed, finds, left, sess, serial, lastOp>>

(***************************************************************************)
(* nct610xd_gpio_init.                                                     *)
(***************************************************************************)
\* What the call of nct610xd_find that just returned did: devid is -1 when
\* the chip id was never read.
FindResult ==
    [addr |-> addr[InitThread], devid |-> devid, ret |-> ret[InitThread]]

StartFind(a) ==
    /\ pc' = [pc EXCEPT ![InitThread] = 1]
    /\ addr' = [addr EXCEPT ![InitThread] = a]
    /\ probed' = Append(probed, a)
    /\ ptrace' = [ptrace EXCEPT ![InitThread] = << >>]
    /\ rlog' = [rlog EXCEPT ![InitThread] = << >>]
    /\ gpio_cfg' = 0
    /\ devid' = 0 - 1
    /\ err' = [err EXCEPT ![InitThread] = 0]
    /\ ret' = [ret EXCEPT ![InitThread] = 0]
    /\ UNCHANGED <<region, chip, waiting, fn, offset, value, dir, data_out,
                   sio, initret, driver, pdev, gpiochip, left, sess, serial,
                   sret, lastOp>>

\* nct610xd_find(0x2e, &sio)
gpio_init_find_first ==
    /\ ipc = "load"
    /\ ipc' = "first"
    /\ StartFind(ADDR_FIRST)
    /\ UNCHANGED finds

\* ... && nct610xd_find(0x4e, &sio): evaluated when the first call returned
\* a value other than 0.
gpio_init_find_second ==
    /\ ipc = "first"
    /\ Returned(InitThread)
    /\ ret[InitThread] # 0
    /\ ipc' = "second"
    /\ finds' = Append(finds, FindResult)
    /\ StartFind(ADDR_SECOND)

\* Both calls returned a value other than 0: return -ENODEV.
gpio_init_nodev ==
    /\ ipc = "second"
    /\ Returned(InitThread)
    /\ ret[InitThread] # 0
    /\ ipc' = "done"
    /\ initret' = 0 - ENODEV
    /\ finds' = Append(finds, FindResult)
    /\ pc' = [pc EXCEPT ![InitThread] = 0]
    /\ UNCHANGED <<region, chip, waiting, fn, offset, value, addr, dir,
                   data_out, gpio_cfg, devid, err, ret, sio, probed, left,
                   driver, pdev, gpiochip, sess, ptrace, rlog, serial, sret,
                   lastOp>>

\* What the platform bus, the allocator and gpiolib may answer with other
\* than 0.  The driver hands on whatever value it was given, so the set holds
\* -ENODEV (the value nct610xd_gpio_init itself answers with when discovery
\* fails), -EPROBE_DEFER, other negative errnos and a positive value.
KernelErrors ==
    {1, 0 - 5, 0 - ENOMEM, 0 - EBUSY, 0 - 17, 0 - ENODEV, 0 - 22, 0 - 517}

\* What stays as it is while nct610xd_gpio_init, past discovery, registers.
InitFrame ==
    UNCHANGED <<region, chip, pc, waiting, fn, offset, value, addr, dir,
                data_out, gpio_cfg, devid, err, ret, sio, probed, finds, left,
                sess, ptrace, rlog, serial, sret, lastOp>>

\* One call of nct610xd_find returned 0:
\* err = platform_driver_register(&nct610xd_gpio_driver); a failure is
\* returned as it is.
gpio_init_register ==
    /\ ipc \in {"first", "second"}
    /\ Returned(InitThread)
    /\ ret[InitThread] = 0
    /\ finds' = Append(finds, FindResult)
    /\ pc' = [pc EXCEPT ![InitThread] = 0]
    /\ \E e \in {0} \cup KernelErrors :
         IF e = 0
            THEN driver' = TRUE /\ ipc' = "add" /\ initret' = initret
            ELSE driver' = driver /\ ipc' = "done" /\ initret' = e
    /\ UNCHANGED <<region, chip, waiting, fn, offset, value, addr, dir,
                   data_out, gpio_cfg, devid, err, ret, sio, probed, left,
                   pdev, gpiochip, sess, ptrace, rlog, serial, sret, lastOp>>

\* err = nct610xd_gpio_device_add(&sio): platform_device_alloc,
\* platform_device_add_data, platform_device_add.  On a failure the driver
\* is unregistered again and init returns the error; on success the device
\* is on the bus and the bus goes on to probe it before platform_device_add
\* returns.
nct610xd_gpio_device_add ==
    /\ ipc = "add"
    /\ \E e \in {0} \cup KernelErrors :
         IF e = 0
            THEN /\ pdev' = TRUE /\ ipc' = "probe"
                 /\ UNCHANGED <<driver, initret>>
            ELSE /\ driver' = FALSE /\ ipc' = "done" /\ initret' = e
                 /\ pdev' = pdev
    /\ gpiochip' = gpiochip
    /\ InitFrame

\* nct610xd_gpio_probe: devm_kzalloc, then devm_gpiochip_add_data for the
\* bank.  The gpio_chip is registered when both succeed; the error of a
\* failed probe stays with the bus and does not reach nct610xd_gpio_init.
\* This step is the probe in which devm_gpiochip_add_data calls none of the
\* chip's callbacks.
nct610xd_gpio_probe ==
    /\ ipc = "probe"
    /\ \E e \in {0} \cup KernelErrors : gpiochip' = (e = 0)
    /\ ipc' = "added"
    /\ UNCHANGED <<driver, pdev, initret>>
    /\ InitFrame

\* chip->get_direction(chip, o) called by devm_gpiochip_add_data on the
\* thread of nct610xd_gpio_init: gpiolib may read the direction of each line
\* of the bank while it adds the chip, before the chip is registered.
gpiochip_get_direction(o) ==
    /\ pc' = [pc EXCEPT ![InitThread] = 1]
    /\ fn' = [fn EXCEPT ![InitThread] = "get_direction"]
    /\ offset' = [offset EXCEPT ![InitThread] = o]
    /\ addr' = [addr EXCEPT ![InitThread] = sio.addr]
    /\ dir' = [dir EXCEPT ![InitThread] = 0]
    /\ err' = [err EXCEPT ![InitThread] = 0]
    /\ ret' = [ret EXCEPT ![InitThread] = 0]
    /\ sret' = [sret EXCEPT ![InitThread] = 0]
    /\ ptrace' = [ptrace EXCEPT ![InitThread] = << >>]
    /\ rlog' = [rlog EXCEPT ![InitThread] = << >>]
    /\ UNCHANGED <<region, chip, waiting, value, data_out, gpio_cfg, devid,
                   sio, initret, driver, pdev, gpiochip, probed, finds, left,
                   sess, serial, lastOp>>

\* nct610xd_gpio_probe with a devm_gpiochip_add_data that reads the
\* direction of every line: the read of line 0 starts.
nct610xd_gpio_probe_lines ==
    /\ ipc = "probe"
    /\ ipc' = "lines"
    /\ gpiochip_get_direction(0)

\* The read of one line returned, whatever it returned, and the read of the
\* next line starts.
gpiochip_next_line ==
    /\ ipc = "lines"
    /\ Returned(InitThread)
    /\ offset[InitThread] + 1 < BANK_NGPIO
    /\ ipc' = ipc
    /\ gpiochip_get_direction(offset[InitThread] + 1)

\* The read of the last line returned and its frame is gone:
\* devm_gpiochip_add_data registers the gpio_chip or fails, and
\* nct610xd_gpio_probe returns.
gpiochip_added ==
    /\ ipc = "lines"
    /\ Returned(InitThread)
    /\ offset[InitThread] + 1 = BANK_NGPIO
    /\ \E e \in {0} \cup KernelErrors : gpiochip' = (e = 0)
    /\ ipc' = "added"
    /\ pc' = [pc EXCEPT ![InitThread] = 0]
    /\ dir' = [dir EXCEPT ![InitThread] = 0]
    /\ err' = [err EXCEPT ![InitThread] = 0]
    /\ ret' = [ret EXCEPT ![InitThread] = 0]
    /\ sret' = [sret EXCEPT ![InitThread] = 0]
    /\ ptrace' = [ptrace EXCEPT ![InitThread] = << >>]
    /\ rlog' = [rlog EXCEPT ![InitThread] = << >>]
    /\ UNCHANGED <<region, chip, waiting, fn, offset, value, addr, data_out,
                   gpio_cfg, devid, sio, initret, driver, pdev, probed, finds,
                   left, sess, serial, lastOp>>

\* return err, with err = 0 from nct610xd_gpio_device_add.
gpio_init_return ==
    /\ ipc = "added"
    /\ ipc' = "done"
    /\ initret' = 0
    /\ UNCHANGED <<driver, pdev, gpiochip>>
    /\ InitFrame

\* nct610xd_gpio_exit: platform_device_unregister, which removes the
\* gpio_chip with the device, and platform_driver_unregister.  The module is
\* unloaded only once it loaded (init returned 0) and while no callback
\* runs: the gpio_chip's owner is the module.
nct610xd_gpio_exit ==
    /\ ipc = "done"
    /\ initret = 0
    /\ \A t \in Threads : pc[t] = 0
    /\ ipc' = "unloaded"
    /\ pdev' = FALSE
    /\ driver' = FALSE
    /\ gpiochip' = FALSE
    /\ initret' = initret
    /\ InitFrame

(***************************************************************************)
(* Another driver that claims one of the candidate regions, either muxed   *)
(* (another Super-I/O driver) or not.  Only the claims made while a call   *)
(* of this driver on the same address is in progress are modelled: a       *)
(* region taken earlier is seen by the call exactly as one taken just      *)
(* after the call began.                                                   *)
(***************************************************************************)
foreign_request(a) ==
    /\ \E t \in Threads : InCall(t) /\ addr[t] = a
    /\ region[a] = Free
    /\ \E k \in ForeignKinds : region' = [region EXCEPT ![a] = Foreign(k)]
    /\ UNCHANGED <<chip, pc, waiting, fn, offset, value, addr, dir, data_out,
                   gpio_cfg, devid, err, ret, sio, ipc, driver, pdev,
                   gpiochip, initret, probed, finds, left,
                   sess, ptrace, rlog, serial, sret, lastOp>>

foreign_release(a) ==
    /\ region[a].kind \in ForeignKinds
    /\ region' = [region EXCEPT ![a] = Free]
    /\ UNCHANGED <<chip, pc, waiting, fn, offset, value, addr, dir, data_out,
                   gpio_cfg, devid, err, ret, sio, ipc, driver, pdev,
                   gpiochip, initret, probed, finds, left,
                   sess, ptrace, rlog, serial, sret, lastOp>>

(***************************************************************************)
(* Initial states and specifications.                                      *)
(***************************************************************************)
ChipStates ==
    [mode : {"locked"}, idx : {0}, ld : {0}, en : InitEnable,
     dir : {165}, data : {204}, id : IdWords, sticks : BOOLEAN]

\* No thread is in a call.
Quiet ==
    /\ region = [a \in Addrs |-> Free]
    /\ pc = [t \in Threads |-> 0]
    /\ waiting = [t \in Threads |-> FALSE]
    /\ fn = [t \in Threads |-> IF t = InitThread THEN "find" ELSE "get"]
    /\ value = [t \in Threads |-> 0]
    /\ dir = [t \in Threads |-> 0]
    /\ data_out = [t \in Threads |-> 0]
    /\ gpio_cfg = 0
    /\ devid = 0 - 1
    /\ err = [t \in Threads |-> 0]
    /\ ret = [t \in Threads |-> 0]
    /\ sess = [t \in Threads |-> "Closed"]
    /\ ptrace = [t \in Threads |-> << >>]
    /\ rlog = [t \in Threads |-> << >>]
    /\ sret = [t \in Threads |-> 0]
    /\ lastOp = NoOp

\* Module load: nct610xd_gpio_init has not run.  The two chips start with
\* the same register contents.
LoadState ==
    /\ Quiet
    /\ offset = [t \in Threads |-> IF t = 2 THEN 1 ELSE 0]
    /\ addr = [t \in Threads |-> ADDR_FIRST]
    /\ sio = [addr |-> 0, type |-> "none"]
    /\ ipc = "load"
    /\ initret = 0
    /\ driver = FALSE /\ pdev = FALSE /\ gpiochip = FALSE
    /\ probed = << >>
    /\ finds = << >>
    /\ left = BootCalls
    /\ serial = [dir |-> 165, data |-> 204, ret |-> 0]

\* A chip whose enable bit is set at load reads it back set whether or not
\* it stores what is written, so only the chips with the bit clear come in
\* both kinds.
InitLoad ==
    /\ LoadState
    /\ \E c1 \in ChipStates, i2 \in IdWords, s2 \in BOOLEAN :
         /\ c1.en = GPIO4_ENABLE => (c1.sticks /\ s2)
         /\ chip = [a \in Addrs |-> IF a = ADDR_FIRST THEN c1
                                    ELSE [c1 EXCEPT !.id = i2, !.sticks = s2]]

\* Module load with every value of the two chip-id bytes at the first
\* candidate address, and the probe of that address alone.
Bytes == 0..255
InitWord ==
    /\ LoadState
    /\ \E hi, lo \in Bytes :
         chip = [a \in Addrs |->
                   [mode |-> "locked", idx |-> 0, ld |-> 0, en |-> 0, dir |-> 165,
                    data |-> 204, id |-> hi * 256 + lo, sticks |-> TRUE]]

NextWord ==
    \/ gpio_init_find_first
    \/ superio_enter(InitThread)
    \/ superio_inw(InitThread)
    \/ superio_select(InitThread)
    \/ superio_inb(InitThread)
    \/ superio_outb(InitThread)
    \/ find_verify(InitThread)
    \/ superio_exit(InitThread)

SpecWord == InitWord /\ [][NextWord]_vars

\* The chip was found at address a and registered: nct610xd_find left it
\* locked, with the GPIO logical device selected and GPIO4 enabled.
Found(d, v) ==
    [mode |-> "locked", idx |-> SIO_GPIO_ENABLE, ld |-> SIO_LD_GPIO,
     en |-> GPIO4_ENABLE, dir |-> d, data |-> v, id |-> SIO_NCT610XD_ID,
     sticks |-> TRUE]
Absent ==
    [mode |-> "locked", idx |-> 0, ld |-> 0, en |-> 0, dir |-> 255,
     data |-> 0, id |-> 65535, sticks |-> FALSE]

Init ==
    /\ Quiet
    /\ \E a \in {ADDR_FIRST}, r \in InitRegs :
         /\ chip = [b \in Addrs |-> IF b = a THEN Found(r[1], r[2]) ELSE Absent]
         /\ sio = [addr |-> a, type |-> "nct610xd"]
         /\ addr = [t \in Threads |-> a]
         /\ probed = << ADDR_FIRST >>
         /\ finds = << [addr |-> a, devid |-> SIO_NCT610XD_ID, ret |-> 0] >>
         /\ serial = [dir |-> r[1], data |-> r[2], ret |-> 0]
    /\ \E p \in 0..(BANK_NGPIO - 1) :
         offset = [t \in Threads |-> IF t = 1 THEN p
                                     ELSE IF t = 2 THEN (p + 1) % BANK_NGPIO
                                     ELSE 0]
    /\ ipc = "done"
    /\ initret = 0
    /\ driver = TRUE /\ pdev = TRUE /\ gpiochip = TRUE
    /\ left = MaxCalls

Step(t) ==
    \/ superio_enter(t)
    \/ superio_enter_sleep(t)
    \/ superio_enter_busy(t)
    \/ superio_select(t)
    \/ superio_inb(t)
    \/ superio_outb(t)
    \/ superio_exit(t)

Environment == \E a \in Addrs : foreign_request(a) \/ foreign_release(a)

\* The registered chip in use.
Next ==
    \/ \E c \in Callers : Call(c) \/ Step(c) \/ Return(c)
    \/ Environment
    \/ nct610xd_gpio_exit

Spec == Init /\ [][Next]_vars

\* The whole life of the module, from load.
NextLife ==
    \/ gpio_init_find_first
    \/ gpio_init_find_second
    \/ gpio_init_nodev
    \/ gpio_init_register
    \/ nct610xd_gpio_device_add
    \/ nct610xd_gpio_probe
    \/ nct610xd_gpio_probe_lines
    \/ gpiochip_next_line
    \/ gpiochip_added
    \/ gpio_init_return
    \/ Step(InitThread)
    \/ superio_inw(InitThread)
    \/ find_verify(InitThread)
    \/ Next

SpecLife == InitLoad /\ [][NextLife]_vars

\* Fair scheduling: a thread that can take its next step eventually takes
\* it, a caller takes the value its call returned, and a holder of another
\* driver releases the region.  Nothing is assumed about when callers call
\* or other drivers claim.
InitSteps ==
    \/ gpio_init_find_first
    \/ gpio_init_find_second
    \/ gpio_init_nodev
    \/ gpio_init_register
    \/ nct610xd_gpio_device_add
    \/ nct610xd_gpio_probe
    \/ nct610xd_gpio_probe_lines
    \/ gpiochip_next_line
    \/ gpiochip_added
    \/ gpio_init_return
    \/ Step(InitThread)
    \/ superio_inw(InitThread)
    \/ find_verify(InitThread)

Fairness ==
    /\ WF_vars(InitSteps)
    /\ \A c \in Callers : WF_vars(Step(c) \/ Return(c))
    /\ \A a \in Addrs : WF_vars(foreign_release(a))

\* Module load with the enable register clear: the first address with the
\* supported chip or none and with or without an enable bit that sticks, the
\* second address with no chip.
InitFair ==
    /\ LoadState
    /\ \E c1 \in ChipStates :
         /\ c1.en = 0
         /\ c1.id \in {SIO_NCT610XD_ID, 65535}
         /\ chip = [a \in Addrs |-> IF a = ADDR_FIRST THEN c1
                                     ELSE [c1 EXCEPT !.id = 65535]]

SpecFair == InitFair /\ [][NextLife]_vars /\ Fairness

(***************************************************************************)
(* Properties.                                                             *)
(***************************************************************************)
SessionsOn(a) == {t \in Threads : InSession(t) /\ addr[t] = a}
Acquired(t) == ptrace[t] # << >>

\* C1 (as stated): two concurrent enter() never both succeed, and the second
\* FAILS with -EBUSY while the first holds the region -- so no thread is ever
\* asleep on a region that a call of this driver holds.
C1_SecondFailsBusy ==
    /\ \A a \in Addrs : Cardinality(SessionsOn(a)) <= 1
    /\ \A t \in Threads : ~(waiting[t] /\ region[addr[t]].kind = "driver")

\* C1 (amended): at most one thread is inside a session on an address pair,
\* and it is the holder of the region; a thread that found the region held
\* by another call is still before its enter (asleep in
\* request_muxed_region), with nothing written to the ports.  While a call
\* of this driver holds the region, a thread at enter neither acquires it
\* nor fails.  A thread at enter, asleep or not, acquires the region only
\* when it is free, and returns -EBUSY, with nothing written to the ports,
\* only when a holder that is not muxed has it.
C1_MutualExclusion ==
    /\ [](/\ \A a \in Addrs : Cardinality(SessionsOn(a)) <= 1
          /\ \A t \in Threads : InSession(t) => region[addr[t]] = HeldBy(t)
          /\ \A t \in Threads :
               waiting[t] => At(t, "enter") /\ ~Acquired(t) /\ sess[t] = "Closed")
    /\ [][\A t \in Threads :
           /\ (At(t, "enter") /\ region[addr[t]].kind = "driver") =>
                  /\ pc'[t] = pc[t]
                  /\ err'[t] = err[t]
                  /\ ptrace'[t] = ptrace[t]
           /\ (At(t, "enter") /\ pc'[t] = pc[t] + 1
                  /\ pc'[t] <= Len(Body(fn[t]))) =>
                  /\ region[addr[t]].kind = "free"
                  /\ region'[addr[t]] = HeldBy(t)
           /\ (At(t, "enter") /\ pc'[t] > Len(Body(fn[t]))) =>
                  /\ region[addr[t]].kind = "busy"
                  /\ err'[t] = 0 - EBUSY
                  /\ ptrace'[t] = << >>
      ]_vars

\* One caller is inside its session while the other sleeps on the region.
C1_Witness ==
    \E c1, c2 \in Callers :
        /\ c1 # c2
        /\ InSession(c1)
        /\ waiting[c2]
        /\ region[addr[c2]] = HeldBy(c1)

\* C2: no leaked lease.  A call that returned after a successful enter wrote
\* the lock key last and does not hold the region; when no call is in
\* progress no region is held by the driver and both chips are locked.
C2_NoLeakedLease ==
    /\ \A t \in Threads :
         ~InCall(t) => /\ \A a \in Addrs : region[a] # HeldBy(t)
                       /\ sess[t] = "Closed"
    /\ \A t \in Threads :
         Returned(t) /\ Acquired(t) =>
             ptrace[t][Len(ptrace[t])] = PortOut(SIO_LOCK_KEY, addr[t])
    /\ (\A t \in Threads : ~InCall(t)) =>
         \A a \in Addrs : region[a].kind # "driver" /\ chip[a].mode = "locked"

\* nct610xd_find returned EPERM from its enable-verification failure path,
\* with the lock key written and the region released.
C2_Witness ==
    /\ Returned(InitThread)
    /\ ret[InitThread] = EPERM
    /\ ptrace[InitThread][Len(ptrace[InitThread])] =
          PortOut(SIO_LOCK_KEY, addr[InitThread])
    /\ region[addr[InitThread]] = Free
    /\ chip[addr[InitThread]].mode = "locked"

GlobalRegs == {SIO_CHIPID, SIO_CHIPID + 1}
Accesses == UNION {{rlog[t][i] : i \in DOMAIN rlog[t]} : t \in Threads}

\* C3 (as stated): every register access is made inside the session and
\* after the logical device was selected in that session.
C3_AllAfterSelect ==
    \A x \in Accesses :
        x.own /\ x.mode = "open" /\ x.sess = "DeviceSelected"

\* C3 (amended): every register access is made by the holder of the region
\* with the window open; the accesses to the registers of a logical device
\* (GPIO enable, direction, data) come after the select of the GPIO device
\* in that session, and the chip-id reads of nct610xd_find (global registers
\* 0x20, 0x21) come before any select.
C3_Bracketing ==
    \A x \in Accesses :
        /\ x.own
        /\ x.mode = "open"
        /\ x.reg \in GlobalRegs => x.sess = "Unlocked"
        /\ x.reg \notin GlobalRegs =>
               x.sess = "DeviceSelected" /\ x.ld = SIO_LD_GPIO

\* nct610xd_find ran to its end: four chip-id byte reads, then the three
\* accesses of the enable register.
C3_Witness ==
    /\ Returned(InitThread)
    /\ ret[InitThread] = 0
    /\ Len(rlog[InitThread]) = 7
    /\ rlog[InitThread][1].sess = "Unlocked"
    /\ rlog[InitThread][7].sess = "DeviceSelected"

\* C9 (as stated): enter() never waits for the holder.
C9_NeverWaits == \A t \in Threads : ~waiting[t]

\* C9 (amended): a step of superio_enter ends in one of three ways, decided
\* by the holder of the region alone: the region is free and the session
\* starts; the holder is not muxed and the call returns -EBUSY at once,
\* having touched no port; the holder is muxed and the thread goes to sleep
\* until the region is released, and then claims the region anew with the
\* same three outcomes.  A call that returned -EBUSY does not try again: its
\* next step is the return to its caller.
C9_EnterOutcome ==
    [][\A t \in Threads :
         /\ (At(t, "enter") /\ pc'[t] # pc[t]) =>
               \/ /\ region[addr[t]].kind = "free"
                  /\ region'[addr[t]] = HeldBy(t)
                  /\ pc'[t] = pc[t] + 1
               \/ /\ region[addr[t]].kind = "busy"
                  /\ region' = region
                  /\ pc'[t] = Len(Body(fn[t])) + 1
                  /\ err'[t] = 0 - EBUSY
                  /\ ptrace'[t] = << >>
         /\ (At(t, "enter") /\ ~waiting[t] /\ waiting'[t]) =>
               region[addr[t]].kind \in {"driver", "muxed"}
         /\ (Returned(t) /\ err[t] = 0 - EBUSY /\ pc'[t] # pc[t] /\ t \in Callers)
               => pc'[t] = 0
      ]_vars

\* A call returned -EBUSY while a holder that is not muxed has the region.
C9_Witness ==
    \E c \in Callers :
        /\ Returned(c)
        /\ err[c] = 0 - EBUSY
        /\ ~Acquired(c)
        /\ region[addr[c]].kind = "busy"

\* The registered chip's registers, and the bits of one byte other than bit n.
Gpio == chip[sio.addr]
SameButBit(x, y, n) == \A i \in 0..7 : i # n => Bit(x, i) = Bit(y, i)

\* C4: atomicity of read-modify-write under concurrency.  Every call returns
\* what it returns in the serial execution that runs the calls one after the
\* other in the order they acquired the region (a call whose enter failed is
\* a no-op there), and whenever no session is open the direction and data
\* registers hold what that serial execution leaves in them.
C4_Serializable ==
    /\ \A c \in Callers : Returned(c) => ret[c] = sret[c]
    /\ (\A t \in Threads : ~InSession(t)) =>
           Gpio.dir = serial.dir /\ Gpio.data = serial.data

\* A direction_out stands between its data write and its direction write
\* while the other caller, a reader, sleeps on the region.
C4_Witness ==
    \E c1, c2 \in Callers :
        /\ c1 # c2
        /\ fn[c1] = "direction_out"
        /\ InSession(c1)
        /\ Len(rlog[c1]) = 2
        /\ waiting[c2]
        /\ fn[c2] \in {"get", "get_direction"}

IsWrite(x) == x.k = "write"
DirectionOutDone(c) == fn[c] = "direction_out" /\ Returned(c) /\ Acquired(c)

\* C5 (as stated): setDirectionOut produces exactly two register
\* transactions, the write of the data register and then the write of the
\* direction register.
C5_TwoTransactions ==
    \A c \in Callers :
        DirectionOutDone(c) =>
            /\ Len(rlog[c]) = 2
            /\ rlog[c][1].k = "write" /\ rlog[c][1].reg = gpio_data(BANK_REGBASE)
            /\ rlog[c][2].k = "write" /\ rlog[c][2].reg = gpio_dir(BANK_REGBASE)

\* C5 (amended): setDirectionOut produces four register transactions: the
\* read of the data register 0xF1, its write with the pin's bit set or
\* cleared per level and the other bits as read, then the read of the
\* direction register 0xF0 and its write with the pin's bit cleared and the
\* other bits as read.  Its two register writes are the data write, then the
\* direction write.
C5_DataBeforeDirection ==
    \A c \in Callers :
        DirectionOutDone(c) =>
            LET l == rlog[c]
                w == SelectSeq(l, IsWrite)
                n == offset[c]
            IN  /\ Len(l) = 4
                /\ Len(w) = 2
                /\ w[1] = l[2] /\ w[2] = l[4]
                /\ l[1].k = "read" /\ l[1].reg = 241
                /\ l[2].reg = 241
                /\ Bit(l[2].val, n) = value[c]
                /\ SameButBit(l[2].val, l[1].val, n)
                /\ l[3].k = "read" /\ l[3].reg = 240
                /\ l[4].reg = 240
                /\ Bit(l[4].val, n) = 0
                /\ SameButBit(l[4].val, l[3].val, n)

\* setDirectionOut(40, 1) returned.
C5_Witness ==
    \E c \in Callers :
        /\ DirectionOutDone(c)
        /\ Pin(offset[c]) = 40
        /\ value[c] = 1
        /\ Bit(rlog[c][2].val, 0) = 1
        /\ Bit(rlog[c][4].val, 0) = 0

\* C6: value round-trip.  A getValue(p) whose session follows a session of
\* setDirectionOut(p, level), with no session of a writer in between,
\* returns level.
C6_ValueRoundTrip ==
    \A c \in Callers :
        (fn[c] = "get" /\ At(c, "exit") /\ lastOp.f = "direction_out"
                       /\ lastOp.off = offset[c])
            => ReturnValue(c) = lastOp.val

\* getValue(p) is about to return 1 after setDirectionOut(p, 1) on a pin
\* whose data bit was 0 at the start.
C6_Witness ==
    \E c \in Callers :
        /\ fn[c] = "get" /\ At(c, "exit")
        /\ lastOp = [f |-> "direction_out", off |-> offset[c], val |-> 1]
        /\ ReturnValue(c) = 1
        /\ \E r \in InitRegs : Bit(r[2], offset[c]) = 0 /\ SameButBit(Gpio.data, r[2], offset[c])

\* C7: direction round-trip.  getDirection(p) returns a value greater than 0
\* (In) exactly when bit p of the direction register is set and 0 (Out)
\* exactly when it is clear; after a session of setDirectionIn(p) it reports
\* In and after a session of setDirectionOut(p, level) it reports Out, for
\* both levels, when no session of a writer came in between.
C7_DirectionRoundTrip ==
    \A c \in Callers :
        (fn[c] = "get_direction" /\ At(c, "exit")) =>
            /\ ReturnValue(c) >= 0
            /\ ReturnValue(c) > 0 <=> Bit(Gpio.dir, offset[c]) = 1
            /\ (lastOp.f = "direction_in" /\ lastOp.off = offset[c])
                   => ReturnValue(c) > 0
            /\ (lastOp.f = "direction_out" /\ lastOp.off = offset[c])
                   => ReturnValue(c) = 0

\* getDirection(p) is about to report In after setDirectionIn(p) on a pin
\* that started as an output.
C7_Witness ==
    \E c \in Callers :
        /\ fn[c] = "get_direction" /\ At(c, "exit")
        /\ lastOp = [f |-> "direction_in", off |-> offset[c], val |-> 0]
        /\ ReturnValue(c) > 0
        /\ \E r \in InitRegs : Bit(r[1], offset[c]) = 0 /\ SameButBit(Gpio.dir, r[1], offset[c])

\* C8: no step of a call of setValue changes the direction register.
C8_SetKeepsDirection ==
    [][\A c \in Callers :
         (fn[c] = "set" /\ InCall(c) /\ pc'[c] # pc[c])
             => chip'[addr[c]].dir = chip[addr[c]].dir
      ]_vars

\* setValue(p, 1) returned on a pin that is an input: the latched data bit
\* is set and the pin is still an input.
C8_Witness ==
    \E c \in Callers :
        /\ fn[c] = "set" /\ Returned(c) /\ Acquired(c)
        /\ value[c] = 1
        /\ Len(rlog[c]) = 2
        /\ Bit(rlog[c][1].val, offset[c]) = 0
        /\ Bit(Gpio.data, offset[c]) = 1
        /\ Bit(Gpio.dir, offset[c]) = 1

\* Discovery as far as it went: a prefix of the candidate order 0x2e, 0x4e,
\* and what the first call of nct610xd_find read and returned.
ProbeOrder == probed \in { << >>, << 46 >>, << 46, 78 >> }
FirstDone == Len(finds) >= 1
FirstRead == FirstDone /\ finds[1].addr = 46 /\ finds[1].devid # 0 - 1
BothMismatch ==
    /\ Len(finds) = 2
    /\ finds[1].devid \notin {53890, 0 - 1}
    /\ finds[2].addr = 78
    /\ finds[2].devid \notin {53890, 0 - 1}
EnableBit(a) == (chip[a].en \div 16) % 2

\* C10 (as stated): whenever the chip id at 0x2e reads 0xd282, discovery
\* succeeds at 0x2e with the enable bit set and 0x4e is not probed; any other
\* id at 0x2e yields NotFound and the probe of 0x4e; two mismatches end in
\* NoSuchDevice with nothing registered.
C10_MatchAlwaysSucceeds ==
    /\ ProbeOrder
    /\ (FirstRead /\ finds[1].devid = 53890) =>
           /\ finds[1].ret = 0
           /\ EnableBit(46) = 1
           /\ probed = << 46 >>
    /\ (FirstRead /\ finds[1].devid # 53890) =>
           /\ finds[1].ret = 0 - ENODEV
           /\ probed = << 46, 78 >>
    /\ BothMismatch => ipc = "done" /\ initret = 0 - ENODEV /\ ~Registered

\* C10 (amended): candidates are probed in the order 0x2e, 0x4e.  When the
\* chip id at 0x2e reads 0xd282 and bit 0x10 of register 0x30 reads back set,
\* discovery succeeds at 0x2e and 0x4e is not probed; when the id reads
\* 0xd282 and the bit does not read back set, the probe of 0x2e fails with
\* EPERM and 0x4e is probed next; for any other id at 0x2e the probe yields
\* NotFound (-ENODEV) and 0x4e is probed next; if 0x4e also mismatches the
\* result is -ENODEV and nothing is registered.
C10_Discovery ==
    /\ ProbeOrder
    /\ (FirstRead /\ finds[1].devid = 53890 /\ EnableBit(46) = 1) =>
           /\ finds[1].ret = 0
           /\ sio = [addr |-> 46, type |-> "nct610xd"]
           /\ probed = << 46 >>
    /\ (FirstRead /\ finds[1].devid = 53890 /\ EnableBit(46) = 0) =>
           /\ finds[1].ret = EPERM
           /\ probed = << 46, 78 >>
    /\ (FirstRead /\ finds[1].devid # 53890) =>
           /\ finds[1].ret = 0 - ENODEV
           /\ probed = << 46, 78 >>
    /\ BothMismatch => ipc = "done" /\ initret = 0 - ENODEV /\ ~Registered

\* Both candidates answered with an unsupported id: nct610xd_gpio_init
\* returned -ENODEV.
C10_Witness ==
    /\ BothMismatch
    /\ probed = << 46, 78 >>
    /\ finds[1].ret = 0 - ENODEV
    /\ finds[2].ret = 0 - ENODEV
    /\ initret = 0 - ENODEV

\* C11 (as stated): whenever enter() fails inside one of the five GPIO
\* operations, the call reports the failure: a call that returned without
\* having acquired the region returned a negative value, and only such a call.
C11_FailureReported ==
    \A c \in Callers :
        Returned(c) => (~Acquired(c) <=> ret[c] < 0)

InitDone == ipc = "done"
Mismatch(i) == finds[i].devid \notin {53890, 0 - 1}

\* C12 (as stated): nct610xd_gpio_init returns -ENODEV exactly when neither
\* candidate answered with the id 0xd282; a probe that failed with -EBUSY or
\* with the enable failure is not reported as -ENODEV.
C12_NoDevMeansNoMatch ==
    InitDone =>
        (initret = 0 - ENODEV <=>
            (Len(finds) = 2 /\ Mismatch(1) /\ Mismatch(2)))

\* nct610xd_gpio_init is past discovery: sio goes to, or went through,
\* nct610xd_gpio_device_add.
HandedOver ==
    ipc \in {"add", "probe", "lines", "added"} \/ driver \/ pdev \/ gpiochip

EnableFailedAt(i) ==
    finds[i].devid = 53890 /\ EnableBit(finds[i].addr) = 0

\* C13: EnableFailed is fatal for that address.  When the chip id matched
\* and bit 0x10 of register 0x30 does not read back set, nct610xd_find
\* returns a value other than 0 after writing the lock key and releasing the
\* region, and the record nct610xd_gpio_init hands to registration never
\* names that address.
C13_EnableFailedFatal ==
    /\ (fn[InitThread] = "find" /\ Returned(InitThread) /\ devid = 53890
           /\ EnableBit(addr[InitThread]) = 0) =>
           /\ ret[InitThread] = EPERM
           /\ ret[InitThread] # 0
           /\ region[addr[InitThread]] # HeldBy(InitThread)
           /\ sess[InitThread] = "Closed"
           /\ ptrace[InitThread][Len(ptrace[InitThread])] =
                 PortOut(SIO_LOCK_KEY, addr[InitThread])
    /\ \A i \in DOMAIN finds :
           EnableFailedAt(i) =>
               /\ finds[i].ret # 0
               /\ HandedOver => sio.addr # finds[i].addr

\* The enable bit did not stick at 0x2e, the chip at 0x4e was found and
\* registered.
C13_Witness ==
    /\ InitDone
    /\ initret = 0
    /\ gpiochip
    /\ Len(finds) = 2
    /\ finds[1] = [addr |-> 46, devid |-> 53890, ret |-> EPERM]
    /\ finds[2].ret = 0
    /\ sio.addr = 78
    /\ EnableBit(46) = 0

GetDone(c) == fn[c] = "get" /\ Returned(c) /\ Acquired(c)

\* C15: getValue is a single pure read.  A getValue(pin) that acquired the
\* region produced exactly one register transaction, the read of the data
\* register 0xF1, wrote no register, and returned 0 or 1, equal to bit
\* (pin - 40) of the byte it read.
C15_GetSingleRead ==
    \A c \in Callers :
        GetDone(c) =>
            /\ Len(rlog[c]) = 1
            /\ rlog[c][1].k = "read"
            /\ rlog[c][1].reg = 241
            /\ \A i \in DOMAIN rlog[c] : ~IsWrite(rlog[c][i])
            /\ ret[c] \in {0, 1}
            /\ ret[c] = Bit(rlog[c][1].val, Pin(offset[c]) - 40)

\* getValue(41) read a byte with bit 1 set among other bits and returned 1.
C15_Witness ==
    \E c \in Callers :
        /\ GetDone(c)
        /\ Pin(offset[c]) = 41
        /\ rlog[c][1].val \in {51, 50}
        /\ ret[c] = 1

\* The port operations of a session between the unlock keys and the lock
\* key, and the index-port / data-port pair number j of them.
Middle(t) ==
    SubSeq(ptrace[t], 3, IF Returned(t) THEN Len(ptrace[t]) - 1 ELSE Len(ptrace[t]))
PairIndex(m, j) == m[2 * j - 1]
PairData(m, j) == m[2 * j]
Pairs(m) == 1..(Len(m) \div 2)
IndexSeq(m) == [j \in Pairs(m) |-> PairIndex(m, j).val]
\* The register transactions among the pairs: every pair but the selects.
RegPairs(m) == SelectSeq([j \in Pairs(m) |-> j],
                         LAMBDA j : PairIndex(m, j).val # SIO_LDSEL)
FindIndexSeqs ==
    { << 32, 33 >>, << 32, 33, 32, 33, 7, 48, 48, 48 >> }

\* The port trace of the session of thread t, as far as it went.
SessionTrace(t) ==
    LET a == addr[t]
        p == ptrace[t]
        m == Middle(t)
        b == Body(fn[t])
    IN  /\ Len(p) >= 2
        /\ p[1] = PortOut(SIO_UNLOCK_KEY, a)
        /\ p[2] = PortOut(SIO_UNLOCK_KEY, a)
        /\ Returned(t) => p[Len(p)] = PortOut(SIO_LOCK_KEY, a)
        /\ Len(m) % 2 = 0
        /\ \A j \in Pairs(m) :
             /\ PairIndex(m, j).op = "outb"
             /\ PairIndex(m, j).port = a
             /\ PairIndex(m, j).val # SIO_LOCK_KEY
             /\ PairData(m, j).port = a + 1
             /\ PairIndex(m, j).val = SIO_LDSEL =>
                    PairData(m, j) = PortOut(SIO_LD_GPIO, a + 1)
        \* the register transactions, in the order the operation logged them
        /\ Len(RegPairs(m)) = Len(rlog[t])
        /\ \A i \in DOMAIN rlog[t] :
             LET j == RegPairs(m)[i]
             IN  /\ PairIndex(m, j).val = rlog[t][i].reg
                 /\ PairData(m, j).val = rlog[t][i].val
                 /\ PairData(m, j).op = IF IsWrite(rlog[t][i]) THEN "outb" ELSE "inb"
        \* and in the order the body of the function lists them
        /\ (fn[t] \in GpioOps /\ Returned(t)) =>
             /\ Len(m) = 2 * (Len(b) - 2)
             /\ \A j \in Pairs(m) :
                  /\ PairIndex(m, j).val =
                        IF b[j + 1].k = "select" THEN SIO_LDSEL ELSE b[j + 1].reg
                  /\ PairData(m, j).op =
                        IF b[j + 1].k = "inb" THEN "inb" ELSE "outb"
        /\ (fn[t] = "find" /\ Returned(t)) => IndexSeq(m) \in FindIndexSeqs

\* C16: session port trace.  Every session starts with two writes of the
\* unlock key 0x87 to the index port and ends with the write of the lock
\* key 0xAA to the index port; in between, every select is the write of 0x07
\* to the index port followed by the write of the logical-device id to the
\* data port and every register access is the write of its offset to the
\* index port followed by the data-port transfer, in the order the operation
\* issues them; and a step that issues port operations is taken by the one
\* thread that holds the region, so that no other port operation is
\* interleaved.
C16_SessionPortTrace ==
    /\ [](\A t \in Threads : (Acquired(t) /\ pc[t] # 0) => SessionTrace(t))
    /\ [][\A t \in Threads :
            ptrace'[t] # ptrace[t] /\ ptrace'[t] # << >> =>
                /\ HeldBy(t) \in {region[addr[t]], region'[addr[t]]}
                /\ \A u \in Threads \ {t} :
                     /\ ptrace'[u] = ptrace[u]
                     /\ addr[u] = addr[t] => ~InSession(u)
         ]_vars

\* A setDirectionIn returned: unlock, unlock, select, read 0xF0, write 0xF0,
\* lock -- nine port operations.
C16_Witness ==
    \E c \in Callers :
        /\ fn[c] = "direction_in" /\ Returned(c)
        /\ Len(ptrace[c]) = 9
        /\ IndexSeq(Middle(c)) = << 7, 240, 240 >>
        /\ ptrace[c][9] = PortOut(SIO_LOCK_KEY, addr[c])

\* C17 (as stated): each public operation, once invoked, returns.
C17_AlwaysReturns ==
    \A t \in Threads : InCall(t) ~> ~InCall(t)

\* The port operations of a complete run of function f: two unlock keys, two
\* per select, inb and outb, four per inw, and the lock key.
PortOps(f) ==
    LET b == Body(f)
    IN  3 + 2 * Cardinality({i \in DOMAIN b : b[i].k \in {"select", "inb", "outb", "verify"}})
          + 4 * Cardinality({i \in DOMAIN b : b[i].k = "inw"})

\* C17 (amended): an operation whose superio_enter acquired the region
\* performs the fixed number of port operations of its body (7 for
\* get_direction and get, 9 for direction_in and set, 13 for direction_out;
\* 7 or 19 for nct610xd_find, which leaves early on an id mismatch) and
\* returns; one whose superio_enter failed returned -EBUSY and performed
\* none.  Every session that becomes active is eventually closed with the
\* region released, so the driver never holds an address pair forever.
\* Nothing bounds the time a call sleeps in superio_enter on a muxed holder:
\* a sleeper leaves superio_enter only by acquiring the region once it is
\* free, or with -EBUSY and no port operation when a holder that is not
\* muxed has taken the region.
C17_SessionsClose ==
    /\ \A t \in Threads :
         InSession(t) ~> (~InCall(t) /\ region[addr[t]] # HeldBy(t))
    /\ \A a \in Addrs : []<>(region[a].kind # "driver")
    /\ [](/\ PortOps("get_direction") = 7 /\ PortOps("get") = 7
          /\ PortOps("direction_in") = 9 /\ PortOps("set") = 9
          /\ PortOps("direction_out") = 13 /\ PortOps("find") = 19
          /\ \A t \in Threads :
               /\ Len(ptrace[t]) <= PortOps(fn[t])
               /\ (Returned(t) /\ Acquired(t) /\ fn[t] \in GpioOps) =>
                      Len(ptrace[t]) = PortOps(fn[t])
               /\ (Returned(t) /\ Acquired(t) /\ fn[t] = "find") =>
                      Len(ptrace[t]) \in {7, 19}
               /\ (Returned(t) /\ ~Acquired(t)) => err[t] = 0 - EBUSY)
    /\ [][\A t \in Threads :
           (waiting[t] /\ pc'[t] # pc[t]) =>
               \/ /\ region[addr[t]].kind = "free"
                  /\ region'[addr[t]] = HeldBy(t)
                  /\ pc'[t] = pc[t] + 1
               \/ /\ region[addr[t]].kind = "busy"
                  /\ pc'[t] > Len(Body(fn[t]))
                  /\ err'[t] = 0 - EBUSY
                  /\ ptrace'[t] = << >>
      ]_vars

\* A setDirectionOut ran its thirteen port operations and returned, with
\* the region free again.
C17_Witness ==
    \E c \in Callers :
        /\ fn[c] = "direction_out" /\ Returned(c)
        /\ Len(ptrace[c]) = 13
        /\ PortOps(fn[c]) = 13
        /\ region[addr[c]] = Free

\* The probe of the first address has read the chip id for its switch.
IdRead == fn[InitThread] = "find" /\ Len(rlog[InitThread]) >= 2
\* The switch on devid took the supported case.
Matched == sio.type = "nct610xd"

\* C18: readWord is big-endian over two consecutive registers.  superio_inw
\* writes reg, then reg + 1, to the index port, in that order, and returns
\* (byte read at reg) * 256 + (byte read at reg + 1); the chip id is matched
\* exactly when register 0x20 holds 0xd2 and register 0x21 holds 0x82.
C18_ReadWordBigEndian ==
    IdRead =>
        LET l == rlog[InitThread]
            p == ptrace[InitThread]
            a == addr[InitThread]
        IN  /\ l[1].reg = 32 /\ l[2].reg = 33
            /\ p[3] = PortOut(32, a) /\ p[5] = PortOut(33, a)
            /\ p[4] = PortIn(l[1].val, a + 1) /\ p[6] = PortIn(l[2].val, a + 1)
            /\ l[1].val = chip[a].id \div 256
            /\ l[2].val = chip[a].id % 256
            /\ devid = l[1].val * 256 + l[2].val
            /\ Matched <=> (l[1].val = 210 /\ l[2].val = 130)

\* The bytes 0x82, 0xd2 were read in this order: the word is 0x82d2 and the
\* chip is not matched.
C18_Witness ==
    /\ IdRead
    /\ rlog[InitThread][1].val = 130
    /\ rlog[InitThread][2].val = 210
    /\ devid = 33490
    /\ ~Matched
    /\ Returned(InitThread)

Writing(c) == fn[c] \in Writers /\ pc[c] # 0

\* C19: bit isolation.  Every register write of setDirectionIn(p),
\* setDirectionOut(p, level) and setValue(p, level) goes to the direction
\* register 0xF0 or the data register 0xF1 and writes the byte the operation
\* read from that register just before, changed in bit p at most; no step of
\* such an operation changes another bit of the two registers, the GPIO
\* enable register or the chip id, and setDirectionIn leaves the data
\* register as it is.
C19_BitIsolation ==
    /\ [](\A c \in Callers :
            Writing(c) =>
                \A i \in DOMAIN rlog[c] :
                    /\ rlog[c][i].reg \in {240, 241}
                    /\ IsWrite(rlog[c][i]) =>
                         /\ i > 1
                         /\ rlog[c][i - 1].k = "read"
                         /\ rlog[c][i - 1].reg = rlog[c][i].reg
                         /\ SameButBit(rlog[c][i].val, rlog[c][i - 1].val, offset[c]))
    /\ [][\A c \in Callers :
            (Writing(c) /\ pc'[c] # pc[c]) =>
                LET a == addr[c]
                IN  /\ SameButBit(chip'[a].dir, chip[a].dir, offset[c])
                    /\ SameButBit(chip'[a].data, chip[a].data, offset[c])
                    /\ chip'[a].en = chip[a].en
                    /\ chip'[a].id = chip[a].id
                    /\ fn[c] = "direction_in" => chip'[a].data = chip[a].data
                    /\ chip'[ADDR_SECOND] = chip[ADDR_SECOND]
         ]_vars

\* A setDirectionOut changed the bit of its pin in both registers, and the
\* other seven bits of each are those of the initial contents.
C19_Witness ==
    \E c \in Callers, r \in InitRegs :
        /\ fn[c] = "direction_out" /\ Returned(c) /\ Acquired(c)
        /\ Bit(r[1], offset[c]) = 1 /\ Bit(Gpio.dir, offset[c]) = 0
        /\ Bit(r[2], offset[c]) # Bit(Gpio.data, offset[c])
        /\ SameButBit(Gpio.dir, r[1], offset[c])
        /\ SameButBit(Gpio.data, r[2], offset[c])

EnterFailed(t) == Returned(t) /\ err[t] = 0 - EBUSY

\* C20: a failed enter touches nothing.  The step on which superio_enter
\* fails to acquire the region changes no chip register and no window
\* state, leaves the region with its holder and every thread's session state
\* as they were, and the operation returns having issued no port operation
\* and no register transaction.
C20_FailedEnterTouchesNothing ==
    /\ [](\A t \in Threads :
            EnterFailed(t) =>
                /\ ptrace[t] = << >>
                /\ rlog[t] = << >>
                /\ sess[t] = "Closed"
                /\ region[addr[t]] # HeldBy(t))
    /\ [][\A t \in Threads :
            (At(t, "enter") /\ EnterFailed(t)') =>
                /\ chip' = chip
                /\ region' = region
                /\ region[addr[t]].kind = "busy"
                /\ sess' = sess
                /\ ptrace' = ptrace
                /\ rlog' = rlog
         ]_vars

\* nct610xd_find returned -EBUSY from a region held by another driver, which
\* still holds it, with the chip locked and untouched.
C20_Witness ==
    /\ EnterFailed(InitThread)
    /\ ret[InitThread] = 0 - EBUSY
    /\ region[addr[InitThread]].kind = "busy"
    /\ chip[addr[InitThread]].mode = "locked"
    /\ chip[addr[InitThread]].idx = 0
    /\ ptrace[InitThread] = << >>

=============================================================================
